---- MODULE Spec2Model ----
(***************************************************************************)
(* Model of src/pipeline.py: a linear fetch -> parse -> normalise ->       *)
(* provision -> project -> batched insert script that loads a KoboToolbox  *)
(* CSV export into mental_health.mental_health_wellbeing.                  *)
(*                                                                         *)
(* Text is modelled as TLA+ strings taken apart character by character     *)
(* (SubSeq on a string yields a string), so header normalisation and the   *)
(* ';' field split are computed, not assumed.                              *)
(***************************************************************************)
EXTENDS Integers, Sequences, FiniteSets, TLC

VARIABLES
    pc,               \* position of the script (the statement about to run)
    run,              \* number of the current run of the script
    status,           \* response.status_code
    text,             \* response.text, as its sequence of lines
    columns,          \* df.columns
    df,               \* the data rows of df, each aligned with columns
    conn,             \* "none" | "open" | "closed"   (psycopg2 connection)
    cur,              \* "none" | "open" | "closed"   (cursor)
    txn,              \* the database as the open transaction sees it
    db,               \* the committed database
    db0,              \* the committed database when the run began
    existing_columns, \* line 128
    insert_query,     \* line 138: column list and placeholders
    values_list,      \* line 150
    error,            \* the exception that ended the run, or "none"
    executed,         \* SQL statements and commits sent during the run
    closed,           \* close() calls the script made, in order
    fetches,          \* HTTP GETs issued during the run
    hdr,              \* normalisation check: a raw header
    norm1,            \* normalisation check: hdr cleaned once
    norm2,            \* normalisation check: hdr cleaned twice
    npc               \* normalisation check: "raw" | "once" | "twice"

pipevars == <<pc, run, status, text, columns, df, conn, cur, txn, db, db0,
              existing_columns, insert_query, values_list, error, executed,
              closed, fetches>>
normvars == <<hdr, norm1, norm2, npc>>
vars == <<pipevars, normvars>>

(***************************************************************************)
(* Bounds                                                                  *)
(***************************************************************************)
MaxRuns == 2        \* runs of the script in a behaviour
MaxRows == 2        \* data lines in a fetched CSV
MaxHeaderLen == 3   \* length of the raw headers of the normalisation check

(***************************************************************************)
(* Strings                                                                 *)
(***************************************************************************)
Char(s, i) == SubSeq(s, i, i)
Rest(s) == SubSeq(s, 2, Len(s))

UpperAZ == "ABCDEFGHIJKLMNOPQRSTUVWXYZ"
LowerAZ == "abcdefghijklmnopqrstuvwxyz"

\* str.lower() of one character
LowerChar(c) ==
    IF \E i \in 1..26 : Char(UpperAZ, i) = c
    THEN Char(LowerAZ, CHOOSE i \in 1..26 : Char(UpperAZ, i) = c)
    ELSE c

RECURSIVE Lower(_)
Lower(s) == IF s = "" THEN "" ELSE LowerChar(Char(s, 1)) \o Lower(Rest(s))

\* the characters str.strip() removes
IsSpace(c) == c \in {" ", "\t", "\n"}

RECURSIVE LStrip(_)
LStrip(s) == IF s # "" /\ IsSpace(Char(s, 1)) THEN LStrip(Rest(s)) ELSE s

RECURSIVE RStrip(_)
RStrip(s) ==
    IF s # "" /\ IsSpace(Char(s, Len(s)))
    THEN RStrip(SubSeq(s, 1, Len(s) - 1))
    ELSE s

Strip(s) == RStrip(LStrip(s))

\* str.replace(pat, rep), pat non-empty: leftmost non-overlapping matches
RECURSIVE Replace(_, _, _)
Replace(s, pat, rep) ==
    IF Len(s) < Len(pat) THEN s
    ELSE IF SubSeq(s, 1, Len(pat)) = pat
         THEN rep \o Replace(SubSeq(s, Len(pat) + 1, Len(s)), pat, rep)
         ELSE Char(s, 1) \o Replace(Rest(s), pat, rep)

\* a variant that pads the replacement of '&' with spaces
CleanColumnName_Padded(s) ==
    Replace(Replace(Replace(Lower(Strip(s)), " ", "_"), "&", " and "), "-", "_")

\* lines 44-51: .str.strip().str.lower().str.replace(" ", "_")
\*              .str.replace("&", "and").str.replace("-", "_")
CleanColumnName(s) ==
    Replace(Replace(Replace(Lower(Strip(s)), " ", "_"), "&", "and"), "-", "_")

\* sep=";": the fields of one line
RECURSIVE SplitFrom(_, _, _)
SplitFrom(s, sep, acc) ==
    IF s = "" THEN <<acc>>
    ELSE IF Char(s, 1) = sep
         THEN <<acc>> \o SplitFrom(Rest(s), sep, "")
         ELSE SplitFrom(Rest(s), sep, acc \o Char(s, 1))

Split(s, sep) == SplitFrom(s, sep, "")

(***************************************************************************)
(* Values.  Every value has the same shape so that any two compare.        *)
(***************************************************************************)
\* Python values held in df cells and in the tuples of values_list
Str(s) == [k |-> "str", s |-> s, t |-> 0]
NaN == [k |-> "nan", s |-> "", t |-> 0]
Timestamp(t) == [k |-> "Timestamp", s |-> "", t |-> t]
NaT == [k |-> "NaT", s |-> "", t |-> 0]

\* values stored in the table
SqlText(s) == [k |-> "text", s |-> s, t |-> 0]
SqlTimestamp(t) == [k |-> "timestamp", s |-> "", t |-> t]
SqlNull == [k |-> "null", s |-> "", t |-> 0]

(***************************************************************************)
(* ISO-8601 timestamps.  A point in time is the number of seconds since    *)
(* 2000-01-01T00:00:00 on a calendar of 31-day months (injective on the    *)
(* YYYY-MM-DDTHH:MM:SS strings, and within 32 bits for 1940..2060).        *)
(***************************************************************************)
Digits == "0123456789"
IsDigit(c) == \E i \in 1..10 : Char(Digits, i) = c
DigitVal(c) == (CHOOSE i \in 1..10 : Char(Digits, i) = c) - 1

RECURSIVE NumFrom(_, _)
NumFrom(s, acc) ==
    IF s = "" THEN acc ELSE NumFrom(Rest(s), acc * 10 + DigitVal(Char(s, 1)))
Num(s) == NumFrom(s, 0)

AllDigits(s) == \A i \in 1..Len(s) : IsDigit(Char(s, i))

\* the string has the shape YYYY-MM-DD<sep>HH:MM:SS with sep among seps
IsoShape(s, seps) ==
    /\ Len(s) = 19
    /\ Char(s, 5) = "-" /\ Char(s, 8) = "-"
    /\ Char(s, 11) \in seps
    /\ Char(s, 14) = ":" /\ Char(s, 17) = ":"
    /\ AllDigits(SubSeq(s, 1, 4)) /\ AllDigits(SubSeq(s, 6, 7))
    /\ AllDigits(SubSeq(s, 9, 10)) /\ AllDigits(SubSeq(s, 12, 13))
    /\ AllDigits(SubSeq(s, 15, 16)) /\ AllDigits(SubSeq(s, 18, 19))
    /\ Num(SubSeq(s, 6, 7)) \in 1..12 /\ Num(SubSeq(s, 9, 10)) \in 1..31
    /\ Num(SubSeq(s, 12, 13)) \in 0..23 /\ Num(SubSeq(s, 15, 16)) \in 0..59
    /\ Num(SubSeq(s, 18, 19)) \in 0..59

IsoInstant(s) ==
    (((((Num(SubSeq(s, 1, 4)) - 2000) * 12 + (Num(SubSeq(s, 6, 7)) - 1)) * 31
        + (Num(SubSeq(s, 9, 10)) - 1)) * 24 + Num(SubSeq(s, 12, 13))) * 60
        + Num(SubSeq(s, 15, 16))) * 60 + Num(SubSeq(s, 18, 19))

TwoDigits(n) == Char(Digits, (n \div 10) + 1) \o Char(Digits, (n % 10) + 1)
FourDigits(n) == TwoDigits(n \div 100) \o TwoDigits(n % 100)

\* datetime.isoformat(sep) of a point in time
IsoFormat(t, sep) ==
    LET ss == t % 60
        mi == (t \div 60) % 60
        hh == (t \div 3600) % 24
        dd == (t \div 86400) % 31
        mo == (t \div (86400 * 31)) % 12
        yy == (t \div (86400 * 31 * 12)) + 2000
    IN  FourDigits(yy) \o "-" \o TwoDigits(mo + 1) \o "-" \o TwoDigits(dd + 1)
        \o sep \o TwoDigits(hh) \o ":" \o TwoDigits(mi) \o ":" \o TwoDigits(ss)

\* line 64/66: pd.to_datetime(value, errors="coerce") of one cell.  The
\* fetched files carry timestamps in the one format YYYY-MM-DDTHH:MM:SS;
\* every other cell of the inputs below is no date in any format.
ToDatetime(v) ==
    IF v.k = "str" /\ IsoShape(v.s, {"T"}) THEN Timestamp(IsoInstant(v.s))
    ELSE IF v.k = "Timestamp" THEN v
    ELSE NaT

(***************************************************************************)
(* The destination database                                                *)
(***************************************************************************)
\* lines 84-103: the columns of CREATE TABLE, as written, after id SERIAL
TableColumns == <<
    <<"start_time", "TIMESTAMP">>,
    <<"end_time", "TIMESTAMP">>,
    <<"age_range", "TEXT">>,
    <<"gender", "TEXT">>,
    <<"location", "TEXT">>,
    <<"stressed_or_overwhelmed", "TEXT">>,
    <<"source_of_stress", "TEXT">>,
    <<"mental_health_issue_experienced", "TEXT">>,
    <<"rate_your_current_mental_health", "TEXT">>,
    <<"cope_with_stress_or_emotional_challenges", "TEXT">>,
    <<"Met_mental_health_professional", "TEXT">>,
    <<"seeking_support", "TEXT">>,
    <<"interested_in_attending_therapy_sessions", "TEXT">>,
    <<"joining_mental_health_support_group", "TEXT">>,
    <<"mental_health_support_you_need", "TEXT">> >>

\* lines 109-125: the ordered mapping, source column -> destination column
COLUMN_MAP == <<
    <<"start", "start_time">>,
    <<"end", "end_time">>,
    <<"age_range", "age_range">>,
    <<"gender", "gender">>,
    <<"location", "location">>,
    <<"stressed_or_overwhelmed", "stressed_or_overwhelmed">>,
    <<"source_of_stress", "source_of_stress">>,
    <<"mental_health_issue_experienced", "mental_health_issue_experienced">>,
    <<"rate_your_current_mental_health", "rate_your_current_mental_health">>,
    <<"cope_with_stress_or_emotional_challenges",
      "cope_with_stress_or_emotional_challenges">>,
    <<"met_mental_health_professional", "Met_mental_health_professional">>,
    <<"seeking_support", "seeking_support">>,
    <<"interested_in_attending_therapy_sessions",
      "interested_in_attending_therapy_sessions">>,
    <<"joining_mental_health_support_group",
      "joining_mental_health_support_group">>,
    <<"mental_health_support_you_need", "mental_health_support_you_need">> >>

\* an unquoted SQL identifier names the column of its lower-case folding
FoldIdent(name) == Lower(name)

\* the table's columns as the catalogue holds them: folded name -> type
CatalogNames == {FoldIdent(TableColumns[i][1]) : i \in DOMAIN TableColumns}
CatalogType(c) ==
    TableColumns[CHOOSE i \in DOMAIN TableColumns :
                    FoldIdent(TableColumns[i][1]) = c][2]

NoTable == [exists |-> FALSE, rows |-> <<>>, nextid |-> 1]
EmptyTable == [exists |-> TRUE, rows |-> <<>>, nextid |-> 1]

\* line 82: CREATE SCHEMA IF NOT EXISTS
SqlCreateSchema(d) == [d EXCEPT !.schema = TRUE]

\* line 83: DROP TABLE IF EXISTS (the SERIAL sequence goes with the table)
SqlDropTable(d) == [d EXCEPT !.table = NoTable]

\* lines 84-103: CREATE TABLE; an existing table is an error
SqlCreateTable(d) ==
    IF d.table.exists
    THEN [ok |-> FALSE, db |-> d, err |-> "DuplicateTable"]
    ELSE [ok |-> TRUE, db |-> [d EXCEPT !.table = EmptyTable], err |-> "none"]

\* psycopg2's adaptation of one Python value to a SQL literal:
\* str -> 'text'; float nan -> 'NaN'::float; a datetime (pandas Timestamp
\* and NaT are datetime subclasses) -> '<isoformat()>'::timestamp, and
\* NaT.isoformat() is "NaT"
Adapt(v) ==
    CASE v.k = "str" -> [lit |-> v.s, cast |-> "unknown"]
      [] v.k = "nan" -> [lit |-> "NaN", cast |-> "float"]
      [] v.k = "Timestamp" -> [lit |-> IsoFormat(v.t, "T"), cast |-> "timestamp"]
      [] v.k = "NaT" -> [lit |-> "NaT", cast |-> "timestamp"]

\* PostgreSQL's evaluation of one literal assigned to a column of type ty
PgAssign(q, ty) ==
    CASE q.cast = "timestamp" ->
            IF ~IsoShape(q.lit, {"T", " "})
            THEN [ok |-> FALSE, val |-> SqlNull, err |-> "InvalidDatetimeFormat"]
            ELSE IF ty = "TIMESTAMP"
                 THEN [ok |-> TRUE, val |-> SqlTimestamp(IsoInstant(q.lit)),
                       err |-> "none"]
                 ELSE [ok |-> TRUE,
                       val |-> SqlText(IsoFormat(IsoInstant(q.lit), " ")),
                       err |-> "none"]
      [] q.cast = "float" ->
            IF ty = "TEXT"
            THEN [ok |-> TRUE, val |-> SqlText(q.lit), err |-> "none"]
            ELSE [ok |-> FALSE, val |-> SqlNull, err |-> "DatatypeMismatch"]
      [] q.cast = "unknown" ->
            IF ty = "TEXT"
            THEN [ok |-> TRUE, val |-> SqlText(q.lit), err |-> "none"]
            ELSE IF IsoShape(q.lit, {"T", " "})
                 THEN [ok |-> TRUE, val |-> SqlTimestamp(IsoInstant(q.lit)),
                       err |-> "none"]
                 ELSE [ok |-> FALSE, val |-> SqlNull,
                       err |-> "InvalidDatetimeFormat"]

\* one INSERT INTO table (cols) VALUES (tuple): the listed columns take the
\* tuple's values, the others are null, id takes the next SERIAL value
SqlInsert(d, cols, tuple) ==
    LET folded == [j \in DOMAIN cols |-> FoldIdent(cols[j])]
        res(j) == PgAssign(Adapt(tuple[j]), CatalogType(folded[j]))
        listed(c) == \E j \in DOMAIN folded : folded[j] = c
        at(c) == CHOOSE j \in DOMAIN folded : folded[j] = c
    IN  IF ~d.table.exists
        THEN [ok |-> FALSE, db |-> d, err |-> "UndefinedTable"]
        ELSE IF \E j \in DOMAIN folded : folded[j] \notin CatalogNames
        THEN [ok |-> FALSE, db |-> d, err |-> "UndefinedColumn"]
        ELSE IF \E j \in DOMAIN folded : ~res(j).ok
        THEN [ok |-> FALSE, db |-> d,
              err |-> res(CHOOSE j \in DOMAIN folded :
                        /\ ~res(j).ok
                        /\ \A i \in 1..(j - 1) : res(i).ok).err]
        ELSE [ok |-> TRUE,
              db |-> [d EXCEPT !.table.rows =
                          Append(@, [id |-> d.table.nextid,
                                     vals |-> [c \in CatalogNames |->
                                        IF listed(c) THEN res(at(c)).val
                                        ELSE SqlNull]]),
                        !.table.nextid = @ + 1],
              err |-> "none"]

\* line 154: execute_batch sends the statements in order inside the open
\* transaction and stops at the first one the server rejects
RECURSIVE SqlInsertAll(_, _, _)
SqlInsertAll(d, cols, tuples) ==
    IF tuples = <<>> THEN [ok |-> TRUE, db |-> d, err |-> "none"]
    ELSE LET r == SqlInsert(d, cols, Head(tuples))
         IN  IF r.ok THEN SqlInsertAll(r.db, cols, Tail(tuples)) ELSE r

(***************************************************************************)
(* The inputs of a run: the HTTP status and the CSV body                   *)
(***************************************************************************)
Statuses == {200, 404, 500}

HeaderLines == {
    "Start;End;Age Range;Gender",
    " Gender ;End;Met Mental-Health Professional;Start",
    "Name;Self-Care & Sleep;Do-Not-Use;Notes" }

\* a full row, a row whose first field is no timestamp, a row with a
\* surplus field, and a short row
DataLines == {
    "2023-01-01T10:00:00;2023-01-01T10:30:00;18-24;Female",
    "Male;2023-01-01T10:30:00;yoga;2023-01-01T10:00:00",
    "2023-01-02T09:15:00;2023-01-02T09:45:00;25-34;Male;surplus",
    "2023-01-02T09:15:00;2023-01-02T09:45:00" }

FieldCount(line) == Len(Split(line, ";"))

\* The bodies a fetch may return: nothing at all, or a header line and up
\* to MaxRows data lines.  Headers are distinct after cleaning, and the
\* first data line is never wider than the header (pandas reads surplus
\* leading fields of the first data line as an index, which no export of
\* the form produces).
Texts ==
    {<<>>} \cup
    { <<p[1]>> \o p[2] :
        p \in { q \in HeaderLines
                        \X UNION {[1..k -> DataLines] : k \in 0..MaxRows} :
                    q[2] = <<>> \/ FieldCount(q[2][1]) <= FieldCount(q[1]) } }

\* the databases a first run may find: a fresh one, or one whose table
\* holds a row of an earlier load
LegacyRow ==
    [id |-> 1,
     vals |-> [c \in CatalogNames |->
                 IF c = "gender" THEN SqlText("Other") ELSE SqlNull]]
InitialDbs == {
    [schema |-> FALSE, table |-> NoTable],
    [schema |-> TRUE,
     table |-> [exists |-> TRUE, rows |-> <<LegacyRow>>, nextid |-> 2]] }

NoQuery == [built |-> FALSE, cols |-> <<>>, placeholders |-> 0]

(***************************************************************************)
(* pandas                                                                  *)
(***************************************************************************)
\* one field as read_csv reads it: an empty field is missing
Cell(f) == IF f = "" THEN NaN ELSE Str(f)

\* line 41, on_bad_lines="skip": a line with more fields than the header is
\* dropped, a shorter one is filled with missing values
ParseRows(lines, width) ==
    LET kept == SelectSeq(lines, LAMBDA l : FieldCount(l) <= width)
    IN  [i \in DOMAIN kept |->
            LET f == Split(kept[i], ";")
            IN  [j \in 1..width |-> IF j <= Len(f) THEN Cell(f[j]) ELSE NaN]]

HasColumn(cols, name) == \E j \in DOMAIN cols : cols[j] = name
ColumnIndex(cols, name) == CHOOSE j \in DOMAIN cols : cols[j] = name

\* row.get(col)
Get(cols, row, name) == row[ColumnIndex(cols, name)]

\* lines 63-66: if name in df.columns: df[name] = pd.to_datetime(df[name])
ConvertColumn(cols, frame, name) ==
    IF HasColumn(cols, name)
    THEN [i \in DOMAIN frame |->
            [j \in DOMAIN frame[i] |->
                IF j = ColumnIndex(cols, name) THEN ToDatetime(frame[i][j])
                ELSE frame[i][j]]]
    ELSE frame

\* a variant that walks the fetched columns and keeps the mapped ones
ExistingColumns_HeaderOrder(cols) ==
    SelectSeq(cols, LAMBDA c : \E i \in DOMAIN COLUMN_MAP : COLUMN_MAP[i][1] = c)

\* line 128: [col for col in COLUMN_MAP.keys() if col in df.columns]
ExistingColumns(cols) ==
    LET keys == [i \in DOMAIN COLUMN_MAP |-> COLUMN_MAP[i][1]]
    IN  SelectSeq(keys, LAMBDA k : HasColumn(cols, k))

\* COLUMN_MAP[col]
MapTo(col) ==
    COLUMN_MAP[CHOOSE i \in DOMAIN COLUMN_MAP : COLUMN_MAP[i][1] = col][2]

(***************************************************************************)
(* The script, statement by statement                                      *)
(***************************************************************************)
Raise(e) == pc' = "failed" /\ error' = e

\* lines 33-36 without the status check
Fetch_Unchecked ==
    /\ pc = "fetch"
    /\ \E s \in Statuses, t \in Texts :
        /\ s = 200 \/ t = <<>>
        /\ status' = s
        /\ text' = t
    /\ fetches' = fetches + 1
    /\ pc' = "read_csv"
    /\ UNCHANGED <<normvars, run, columns, df, conn, cur, txn, db, db0, existing_columns,
                   insert_query, values_list, error, executed, closed>>

\* lines 33-36: one GET; any status other than 200 raises
Fetch ==
    /\ pc = "fetch"
    /\ \E s \in Statuses, t \in Texts :
        /\ s = 200 \/ t = <<>>
        /\ status' = s
        /\ text' = t
        /\ IF s # 200 THEN Raise("FetchFailed")
           ELSE pc' = "read_csv" /\ error' = error
    /\ fetches' = fetches + 1
    /\ UNCHANGED <<normvars, run, columns, df, conn, cur, txn, db, db0, existing_columns,
                   insert_query, values_list, executed, closed>>

\* line 41: pd.read_csv(..., sep=";", on_bad_lines="skip"); a body with no
\* header line raises EmptyDataError
ReadCsv ==
    /\ pc = "read_csv"
    /\ IF text = <<>>
       THEN Raise("EmptyDataError") /\ UNCHANGED <<columns, df>>
       ELSE /\ columns' = Split(text[1], ";")
            /\ df' = ParseRows(Tail(text), Len(Split(text[1], ";")))
            /\ pc' = "clean"
            /\ error' = error
    /\ UNCHANGED <<normvars, run, status, text, conn, cur, txn, db, db0, existing_columns,
                   insert_query, values_list, executed, closed, fetches>>

\* lines 44-51: clean the column names
CleanColumns ==
    /\ pc = "clean"
    /\ columns' = [j \in DOMAIN columns |-> CleanColumnName(columns[j])]
    /\ pc' = "to_datetime"
    /\ UNCHANGED <<normvars, run, status, text, df, conn, cur, txn, db, db0,
                   existing_columns, insert_query, values_list, error, executed,
                   closed, fetches>>

\* lines 63-66: convert the columns named start and end
ConvertTimestamps ==
    /\ pc = "to_datetime"
    /\ df' = ConvertColumn(columns, ConvertColumn(columns, df, "start"), "end")
    /\ pc' = "connect"
    /\ UNCHANGED <<normvars, run, status, text, columns, conn, cur, txn, db, db0,
                   existing_columns, insert_query, values_list, error, executed,
                   closed, fetches>>

\* lines 72-79: psycopg2.connect and conn.cursor(); autocommit is off, so
\* the first statement opens a transaction that sees the committed state
Connect ==
    /\ pc = "connect"
    /\ conn' = "open"
    /\ cur' = "open"
    /\ txn' = db
    /\ pc' = "create_schema"
    /\ UNCHANGED <<normvars, run, status, text, columns, df, db, db0, existing_columns,
                   insert_query, values_list, error, executed, closed, fetches>>

\* line 82
CreateSchema ==
    /\ pc = "create_schema"
    /\ txn' = SqlCreateSchema(txn)
    /\ executed' = Append(executed, "CREATE SCHEMA")
    /\ pc' = "drop_table"
    /\ UNCHANGED <<normvars, run, status, text, columns, df, conn, cur, db, db0,
                   existing_columns, insert_query, values_list, error, closed,
                   fetches>>

\* line 83 left out
DropTable_Skipped ==
    /\ pc = "drop_table"
    /\ pc' = "create_table"
    /\ UNCHANGED <<normvars, run, status, text, columns, df, conn, cur, txn, db, db0,
                   existing_columns, insert_query, values_list, error, executed,
                   closed, fetches>>

\* line 83
DropTable ==
    /\ pc = "drop_table"
    /\ txn' = SqlDropTable(txn)
    /\ executed' = Append(executed, "DROP TABLE")
    /\ pc' = "create_table"
    /\ UNCHANGED <<normvars, run, status, text, columns, df, conn, cur, db, db0,
                   existing_columns, insert_query, values_list, error, closed,
                   fetches>>

\* lines 84-103 as CREATE TABLE IF NOT EXISTS
CreateTable_IfNotExists ==
    /\ pc = "create_table"
    /\ txn' = IF txn.table.exists THEN txn ELSE SqlCreateTable(txn).db
    /\ executed' = Append(executed, "CREATE TABLE")
    /\ pc' = "map_columns"
    /\ UNCHANGED <<normvars, run, status, text, columns, df, conn, cur, db, db0,
                   existing_columns, insert_query, values_list, error, closed,
                   fetches>>

\* lines 84-103 followed by a commit
CreateTable_Committed ==
    /\ pc = "create_table"
    /\ txn' = SqlCreateTable(txn).db
    /\ db' = txn'
    /\ executed' = executed \o <<"CREATE TABLE", "COMMIT">>
    /\ IF SqlCreateTable(txn).ok
       THEN pc' = "map_columns" /\ error' = error
       ELSE Raise(SqlCreateTable(txn).err)
    /\ UNCHANGED <<normvars, run, status, text, columns, df, conn, cur, db0,
                   existing_columns, insert_query, values_list, closed, fetches>>

\* lines 84-103
CreateTable ==
    /\ pc = "create_table"
    /\ txn' = SqlCreateTable(txn).db
    /\ executed' = Append(executed, "CREATE TABLE")
    /\ IF SqlCreateTable(txn).ok
       THEN pc' = "map_columns" /\ error' = error
       ELSE Raise(SqlCreateTable(txn).err)
    /\ UNCHANGED <<normvars, run, status, text, columns, df, conn, cur, db, db0,
                   existing_columns, insert_query, values_list, closed, fetches>>

\* lines 82-103 with the table kept from run to run
Provision_Keep == CreateSchema \/ DropTable_Skipped \/ CreateTable_IfNotExists

\* lines 82-103: schema provisioning
Provision == CreateSchema \/ DropTable \/ CreateTable

\* lines 128-130 without the check
MapColumns_Unchecked ==
    /\ pc = "map_columns"
    /\ existing_columns' = ExistingColumns(columns)
    /\ pc' = "prepare"
    /\ UNCHANGED <<normvars, run, status, text, columns, df, conn, cur, txn, db, db0,
                   insert_query, values_list, error, executed, closed, fetches>>

\* lines 128-130: keep the mapped columns the CSV has; none raises
MapColumns ==
    /\ pc = "map_columns"
    /\ existing_columns' = ExistingColumns(columns)
    /\ IF Len(existing_columns') = 0
       THEN Raise("NoExpectedColumns")
       ELSE pc' = "prepare" /\ error' = error
    /\ UNCHANGED <<normvars, run, status, text, columns, df, conn, cur, txn, db, db0,
                   insert_query, values_list, executed, closed, fetches>>

\* lines 138-141: the insert statement
PrepareInsert ==
    /\ pc = "prepare"
    /\ insert_query' =
         [built |-> TRUE,
          cols |-> [j \in DOMAIN existing_columns |-> MapTo(existing_columns[j])],
          placeholders |-> Len(existing_columns)]
    /\ pc' = "preview"
    /\ UNCHANGED <<normvars, run, status, text, columns, df, conn, cur, txn, db, db0,
                   existing_columns, values_list, error, executed, closed,
                   fetches>>

\* line 145: df.iloc[0] raises IndexError on a frame without rows
PreviewFirstRow ==
    /\ pc = "preview"
    /\ IF Len(df) = 0
       THEN Raise("IndexError")
       ELSE pc' = "build_values" /\ error' = error
    /\ UNCHANGED <<normvars, run, status, text, columns, df, conn, cur, txn, db, db0,
                   existing_columns, insert_query, values_list, executed, closed,
                   fetches>>

\* lines 150-152: one tuple per row; no tuples skips the insert
BuildValues ==
    /\ pc = "build_values"
    /\ values_list' =
         [i \in DOMAIN df |->
            [j \in DOMAIN existing_columns |->
                Get(columns, df[i], existing_columns[j])]]
    /\ pc' = IF Len(values_list') = 0 THEN "close_cur" ELSE "execute_batch"
    /\ UNCHANGED <<normvars, run, status, text, columns, df, conn, cur, txn, db, db0,
                   existing_columns, insert_query, error, executed, closed,
                   fetches>>

\* line 154 as one execute and one commit per row
ExecuteBatch_RowCommits ==
    /\ pc = "execute_batch"
    /\ txn' = SqlInsertAll(txn, insert_query.cols, values_list).db
    /\ db' = txn'
    /\ executed' = Append(executed, "INSERT")
    /\ IF SqlInsertAll(txn, insert_query.cols, values_list).ok
       THEN pc' = "commit" /\ error' = error
       ELSE Raise(SqlInsertAll(txn, insert_query.cols, values_list).err)
    /\ UNCHANGED <<normvars, run, status, text, columns, df, conn, cur, db0,
                   existing_columns, insert_query, values_list, closed, fetches>>

\* line 154: execute_batch(cur, insert_query, values_list)
ExecuteBatch ==
    /\ pc = "execute_batch"
    /\ txn' = SqlInsertAll(txn, insert_query.cols, values_list).db
    /\ executed' = Append(executed, "INSERT")
    /\ IF SqlInsertAll(txn, insert_query.cols, values_list).ok
       THEN pc' = "commit" /\ error' = error
       ELSE Raise(SqlInsertAll(txn, insert_query.cols, values_list).err)
    /\ UNCHANGED <<normvars, run, status, text, columns, df, conn, cur, db, db0,
                   existing_columns, insert_query, values_list, closed, fetches>>

\* line 155: conn.commit()
Commit ==
    /\ pc = "commit"
    /\ db' = txn
    /\ executed' = Append(executed, "COMMIT")
    /\ pc' = "close_cur"
    /\ UNCHANGED <<normvars, run, status, text, columns, df, conn, cur, txn, db0,
                   existing_columns, insert_query, values_list, error, closed,
                   fetches>>

\* line 158: cur.close()
CloseCursor ==
    /\ pc = "close_cur"
    /\ cur' = "closed"
    /\ closed' = Append(closed, "cur")
    /\ pc' = "close_conn"
    /\ UNCHANGED <<normvars, run, status, text, columns, df, conn, txn, db, db0,
                   existing_columns, insert_query, values_list, error, executed,
                   fetches>>

\* line 159 left out
CloseConnection_Forgotten ==
    /\ pc = "close_conn"
    /\ txn' = db
    /\ pc' = "done"
    /\ UNCHANGED <<normvars, run, status, text, columns, df, conn, cur, db, db0,
                   existing_columns, insert_query, values_list, error, executed,
                   closed, fetches>>

\* line 159: conn.close(); work not committed is discarded
CloseConnection ==
    /\ pc = "close_conn"
    /\ conn' = "closed"
    /\ closed' = Append(closed, "conn")
    /\ txn' = db
    /\ pc' = "done"
    /\ UNCHANGED <<normvars, run, status, text, columns, df, cur, db, db0,
                   existing_columns, insert_query, values_list, error, executed,
                   fetches>>

\* an uncaught exception ends the process: the script closes nothing, and
\* the server rolls back the transaction of the connection it loses
Exit ==
    /\ pc = "failed"
    /\ txn' = db
    /\ pc' = "aborted"
    /\ UNCHANGED <<normvars, run, status, text, columns, df, conn, cur, db, db0,
                   existing_columns, insert_query, values_list, error, executed,
                   closed, fetches>>

\* the operator starts the script again
NextRun ==
    /\ pc \in {"done", "aborted"}
    /\ run < MaxRuns
    /\ run' = run + 1
    /\ pc' = "fetch"
    /\ status' = 0
    /\ text' = <<>>
    /\ columns' = <<>>
    /\ df' = <<>>
    /\ conn' = "none"
    /\ cur' = "none"
    /\ txn' = db
    /\ db0' = db
    /\ existing_columns' = <<>>
    /\ insert_query' = NoQuery
    /\ values_list' = <<>>
    /\ error' = "none"
    /\ executed' = <<>>
    /\ closed' = <<>>
    /\ fetches' = 0
    /\ UNCHANGED <<normvars, db>>

Init ==
    /\ pc = "fetch"
    /\ run = 1
    /\ status = 0
    /\ text = <<>>
    /\ columns = <<>>
    /\ df = <<>>
    /\ conn = "none"
    /\ cur = "none"
    /\ db \in InitialDbs
    /\ txn = db
    /\ db0 = db
    /\ existing_columns = <<>>
    /\ insert_query = NoQuery
    /\ values_list = <<>>
    /\ error = "none"
    /\ executed = <<>>
    /\ closed = <<>>
    /\ fetches = 0
    /\ hdr = "" /\ norm1 = "" /\ norm2 = "" /\ npc = "idle"

Next ==
    \/ Fetch
    \/ ReadCsv
    \/ CleanColumns
    \/ ConvertTimestamps
    \/ Connect
    \/ Provision
    \/ MapColumns
    \/ PrepareInsert
    \/ PreviewFirstRow
    \/ BuildValues
    \/ ExecuteBatch
    \/ Commit
    \/ CloseCursor
    \/ CloseConnection
    \/ Exit
    \/ NextRun

Spec == Init /\ [][Next]_vars

(***************************************************************************)
(* Header normalisation on its own: every string over NormAlphabet of      *)
(* length at most MaxHeaderLen is cleaned, and the result cleaned again.   *)
(***************************************************************************)
NormAlphabet == {" ", "\t", "A", "a", "&", "-", "_"}

RECURSIVE StringsUpTo(_)
StringsUpTo(n) ==
    IF n = 0 THEN {""}
    ELSE StringsUpTo(n - 1)
         \cup {c \o w : c \in NormAlphabet,
                        w \in {x \in StringsUpTo(n - 1) : Len(x) = n - 1}}

NormInit ==
    /\ hdr \in StringsUpTo(MaxHeaderLen)
    /\ norm1 = "" /\ norm2 = "" /\ npc = "raw"
    /\ pc = "idle" /\ run = 1 /\ status = 0 /\ text = <<>> /\ columns = <<>>
    /\ df = <<>> /\ conn = "none" /\ cur = "none"
    /\ db = [schema |-> FALSE, table |-> NoTable] /\ txn = db /\ db0 = db
    /\ existing_columns = <<>> /\ insert_query = NoQuery /\ values_list = <<>>
    /\ error = "none" /\ executed = <<>> /\ closed = <<>> /\ fetches = 0

\* lines 44-51 applied to the raw header
NormalizeOnce ==
    /\ npc = "raw"
    /\ norm1' = CleanColumnName(hdr)
    /\ npc' = "once"
    /\ UNCHANGED <<pipevars, hdr, norm2>>

\* lines 44-51 applied to the cleaned header
NormalizeTwice ==
    /\ npc = "once"
    /\ norm2' = CleanColumnName(norm1)
    /\ npc' = "twice"
    /\ UNCHANGED <<pipevars, hdr, norm1>>

NormNext == NormalizeOnce \/ NormalizeTwice

SpecNorm == NormInit /\ [][NormNext]_vars

(***************************************************************************)
(* Properties                                                              *)
(***************************************************************************)
CommittedRows == db.table.rows

\* the data lines of the body that read_csv keeps, in order
SurvivingLines ==
    SelectSeq(Tail(text), LAMBDA l : FieldCount(l) <= FieldCount(text[1]))

\* the destination column, as the catalogue names it, of mapping entry k
DestOf(k) == Lower(COLUMN_MAP[k][2])

\* the position of mapping entry k's source column among the columns, or 0
SourcePos(k) ==
    IF \E j \in DOMAIN columns : columns[j] = COLUMN_MAP[k][1]
    THEN CHOOSE j \in DOMAIN columns : columns[j] = COLUMN_MAP[k][1]
    ELSE 0

\* the field of a line at a position, "" when the line is too short
FieldAt(line, j) ==
    IF j <= FieldCount(line) THEN Split(line, ";")[j] ELSE ""

\* C1: a run that completes leaves in the table exactly one row per
\* surviving data line of that run's CSV, in line order, keyed 1, 2, ... in
\* that order, holding under each mapped column the line's field (text
\* verbatim, a timestamp as its point in time) and null elsewhere; nothing
\* of the table's earlier contents remains.
C1_TableIsThisRunsRows ==
    pc = "done" =>
        /\ db.table.exists
        /\ Len(CommittedRows) = Len(SurvivingLines)
        /\ \A i \in DOMAIN CommittedRows :
            /\ CommittedRows[i].id = i
            /\ \A k \in DOMAIN COLUMN_MAP :
                LET j == SourcePos(k)
                    f == FieldAt(SurvivingLines[i], j)
                    v == CommittedRows[i].vals[DestOf(k)]
                IN  IF j = 0 THEN v = SqlNull
                    ELSE IF f = "" THEN TRUE
                    ELSE IF COLUMN_MAP[k][1] \in {"start", "end"}
                    THEN v = SqlTimestamp(IsoInstant(f))
                    ELSE v = SqlText(f)

\* C1 witness: a second run completes with two rows over a table that held
\* other rows
C1_Witness ==
    /\ pc = "done" /\ run = 2
    /\ db0.table.rows # <<>>
    /\ Len(CommittedRows) = 2
    /\ CommittedRows[1] # CommittedRows[2]
    /\ db0.table.rows[1] # CommittedRows[1]

\* the cleaned columns share a name with the mapping
SomeMapped ==
    \E j \in DOMAIN columns, k \in DOMAIN COLUMN_MAP : columns[j] = COLUMN_MAP[k][1]

Cleaned == pc \notin {"fetch", "read_csv", "clean"} /\ columns # <<>>

\* C2 as claimed: a CSV with a mapped column and no data rows runs to the
\* end without an error, sends no insert, and leaves the table existing and
\* empty.
C2_ZeroRowsCompletes ==
    (Cleaned /\ SomeMapped /\ Len(text) = 1) =>
        /\ error = "none"
        /\ "INSERT" \notin {executed[i] : i \in DOMAIN executed}
        /\ pc = "done" => (db.table.exists /\ CommittedRows = <<>>)

\* C3: a status other than 200 ends the run at the fetch: one GET, no
\* connection, no cursor, no statement, no insert statement built, and the
\* committed table as it was.
C3_FetchFailureTouchesNothing ==
    (pc # "fetch" /\ status # 200) =>
        /\ pc \in {"failed", "aborted"}
        /\ error = "FetchFailed"
        /\ fetches = 1
        /\ conn = "none" /\ cur = "none"
        /\ executed = <<>>
        /\ ~insert_query.built
        /\ db = db0

\* C3 witness: a run over a loaded table was refused with 404 and has ended
C3_Witness ==
    /\ pc = "aborted" /\ status = 404 /\ run = 2
    /\ db.table.exists /\ Len(CommittedRows) = 2

BeforeMappingCheck ==
    pc \in {"fetch", "read_csv", "clean", "to_datetime", "connect",
            "create_schema", "drop_table", "create_table", "map_columns"}

\* C4: when no mapping key is among the cleaned columns, the run is over
\* once the mapping step is passed: it raised, after exactly the three
\* provisioning statements, with no insert statement built, no tuples, no
\* insert, no commit, and the committed database as it was.
C4_NoMappedColumnAborts ==
    (columns # <<>> /\ ~SomeMapped /\ ~BeforeMappingCheck) =>
        /\ pc \in {"failed", "aborted"}
        /\ error = "NoExpectedColumns"
        /\ executed = <<"CREATE SCHEMA", "DROP TABLE", "CREATE TABLE">>
        /\ ~insert_query.built
        /\ values_list = <<>>
        /\ db = db0

\* C4 witness: such a run has ended, its transaction holding the new table
C4_Witness ==
    /\ pc = "failed" /\ error = "NoExpectedColumns"
    /\ columns[2] = "self_care_and_sleep"
    /\ txn.table = EmptyTable
    /\ db.table.rows # <<>>

\* the place in the mapping of a destination name
MapIndexOfDest(d) ==
    IF \E k \in DOMAIN COLUMN_MAP : COLUMN_MAP[k][2] = d
    THEN CHOOSE k \in DOMAIN COLUMN_MAP : COLUMN_MAP[k][2] = d
    ELSE 0

C6_CleanIsIdempotent == npc = "twice" => norm2 = norm1

\* C6 witness: a header that every step of the cleaning changes
C6_Witness == npc = "twice" /\ hdr = " &-" /\ norm1 = "and_"

\* some cell of a start or end column did not parse
HasUnparseable ==
    \E i \in DOMAIN df, j \in DOMAIN columns :
        columns[j] \in {"start", "end"} /\ df[i][j] = NaT

\* C7 as claimed: a start or end value that does not parse does not end the
\* run, and a completed run holds null for it and the same point in time
\* for a value that parsed.
C7_UnparseableBecomesNull ==
    /\ (pc \notin {"fetch", "read_csv", "clean", "to_datetime"} /\ HasUnparseable)
          => error = "none"
    /\ pc = "done" =>
        \A i \in DOMAIN df, j \in DOMAIN columns :
            columns[j] \in {"start", "end"} =>
                CommittedRows[i].vals[Lower(MapTo(columns[j]))] =
                    IF df[i][j] = NaT THEN SqlNull
                    ELSE SqlTimestamp(df[i][j].t)

C9_ClosedOnlyAtTheEnd ==
    /\ pc = "close_conn" => closed = <<"cur">>
    /\ pc = "done" =>
        closed = <<"cur", "conn">> /\ cur = "closed" /\ conn = "closed"
    /\ pc \in {"failed", "aborted"} =>
        /\ closed = <<>>
        /\ conn \in {"none", "open"}
        /\ cur = conn

\* C9 witness: a committed run has reached the end
C9_Witness ==
    /\ pc = "done" /\ executed[Len(executed)] = "COMMIT"
    /\ closed = <<"cur", "conn">>

\* C10: a run commits at most once, as the last thing it sends, after the
\* three provisioning statements and the insert of a non-empty list; until
\* then, and in a run that never gets there, the committed database is as
\* it was when the run began.
C10_OneTransactionOneCommit ==
    /\ Cardinality({i \in DOMAIN executed : executed[i] = "COMMIT"}) <= 1
    /\ (\E i \in DOMAIN executed : executed[i] = "COMMIT") =>
        /\ executed = <<"CREATE SCHEMA", "DROP TABLE", "CREATE TABLE",
                        "INSERT", "COMMIT">>
        /\ values_list # <<>>
    /\ (\A i \in DOMAIN executed : executed[i] # "COMMIT") => db = db0

\* C10 witness: a run over a loaded table found no data rows and ended after
\* creating the table, the loaded rows still there
C10_Witness ==
    /\ pc = "aborted" /\ error = "IndexError"
    /\ executed = <<"CREATE SCHEMA", "DROP TABLE", "CREATE TABLE">>
    /\ Len(CommittedRows) = 2

====
